---- MODULE Spec2Model ----
(***************************************************************************)
(* StakedNodesUpdaterService (core/src/staked_nodes_updater_service.rs):   *)
(* the background thread that every IP_TO_STAKE_REFRESH_DURATION rebuilds  *)
(* the stake maps from the root bank and the gossip peers, applies the     *)
(* configured overrides and publishes the result in the shared StakedNodes.*)
(***************************************************************************)
EXTENDS Integers, Sequences, FiniteSets, Bags, TLC

(***************************************************************************)
(* Bounds of the model and program constants.                              *)
(***************************************************************************)
\* const IP_TO_STAKE_REFRESH_DURATION = Duration::from_secs(5); the clock of
\* the model counts seconds.
IP_TO_STAKE_REFRESH_DURATION == 5

\* number of concurrent readers of the shared StakedNodes
MaxReaders == 1
\* largest number of entries of the snapshot and of the overrides mapping,
\* and of gossip peers, that the cycle specification starts from
MaxEntries == 2
MaxPeers == 2

Ids == {"A", "B", "C"}
Addrs == {"ip1", "ip2"}
\* u64::MAX of the model: stakes and total_stake are u64 in the program, and
\* the model keeps the arithmetic of a fixed-width word on a narrower word
U64_MAX == 31
\* stakes of snapshot entries and of overrides in the cycle specification;
\* all sums of these stay inside the word
Stakes == {1, 2}
\* stakes of overrides in the overflow specification: an administrator may
\* configure any u64
WideStakes == Stakes \cup {U64_MAX}
\* the None of an Option<IpAddr>
None == "none"

(***************************************************************************)
(* HashMap<K, u64> as a function on its key set.                           *)
(***************************************************************************)
EmptyMap == [k \in {} |-> 0]

Insert(m, k, v) == [x \in (DOMAIN m) \cup {k} |-> IF x = k THEN v ELSE m[x]]

RECURSIVE SumValues(_)
SumValues(m) ==
    IF DOMAIN m = {} THEN 0
    ELSE LET k == CHOOSE x \in DOMAIN m : TRUE
         IN m[k] + SumValues([x \in (DOMAIN m) \ {k} |-> m[x]])

\* u64 arithmetic of a build without overflow checks
WrappingAdd(a, b) == (a + b) % (U64_MAX + 1)

WrappingSub(a, b) == (a + (U64_MAX + 1) - b) % (U64_MAX + 1)

\* staked_nodes.iter().map(|(_pubkey, stake)| stake).sum::<u64>()
SnapshotTotal(staked_nodes) == SumValues(staked_nodes) % (U64_MAX + 1)

\* tvu_peers().into_iter().filter_map(|node| Some((node.id, *staked_nodes.get(&node.id)?))).collect()
RECURSIVE CollectIdToStake(_, _, _)
CollectIdToStake(nodes, staked_nodes, acc) ==
    IF nodes = <<>> THEN acc
    ELSE LET node == Head(nodes)
         IN CollectIdToStake(Tail(nodes), staked_nodes,
                IF node.id \in DOMAIN staked_nodes
                THEN Insert(acc, node.id, staked_nodes[node.id])
                ELSE acc)

\* CollectIpToStake keeping the first stake seen for an address
\* (acc.entry(ip).or_insert(stake))
RECURSIVE CollectIpToStakeFirstWins(_, _, _)
CollectIpToStakeFirstWins(nodes, staked_nodes, acc) ==
    IF nodes = <<>> THEN acc
    ELSE LET node == Head(nodes)
         IN CollectIpToStakeFirstWins(Tail(nodes), staked_nodes,
                IF node.id \in DOMAIN staked_nodes /\ node.tvu_ip \notin DOMAIN acc
                THEN Insert(acc, node.tvu_ip, staked_nodes[node.id])
                ELSE acc)

\* tvu_peers().into_iter().filter_map(|node| Some((node.tvu.ip(), *staked_nodes.get(&node.id)?))).collect()
RECURSIVE CollectIpToStake(_, _, _)
CollectIpToStake(nodes, staked_nodes, acc) ==
    IF nodes = <<>> THEN acc
    ELSE LET node == Head(nodes)
         IN CollectIpToStake(Tail(nodes), staked_nodes,
                IF node.id \in DOMAIN staked_nodes
                THEN Insert(acc, node.tvu_ip, staked_nodes[node.id])
                ELSE acc)

\* tvu_peers().into_iter().find_map(|node| if node.id == *id_override { Some(node.tvu.ip()) } else { None })
RECURSIVE FindIp(_, _)
FindIp(nodes, id_override) ==
    IF nodes = <<>> THEN None
    ELSE IF Head(nodes).id = id_override THEN Head(nodes).tvu_ip
         ELSE FindIp(Tail(nodes), id_override)

\* OverrideTotal without the subtraction of the previous stake
OverrideTotalNoSubtract(total, id_to_stake, id_override, stake_override) ==
    total + stake_override

\* OverrideTotal that adds the override only in place of a previous stake
\* (the addition moved into the if let)
OverrideTotalOnlyReplaces(total, id_to_stake, id_override, stake_override) ==
    IF id_override \in DOMAIN id_to_stake
    THEN total - id_to_stake[id_override] + stake_override
    ELSE total

\* OverrideTotal with saturating arithmetic
\* (total_stake.saturating_sub(previous_stake).saturating_add(stake_override))
OverrideTotalSaturating(total, id_to_stake, id_override, stake_override) ==
    LET after_sub == IF id_override \in DOMAIN id_to_stake
                     THEN (IF total < id_to_stake[id_override]
                           THEN 0 ELSE total - id_to_stake[id_override])
                     ELSE total
    IN IF after_sub + stake_override > U64_MAX
       THEN U64_MAX ELSE after_sub + stake_override

\* if let Some(previous_stake) = id_to_stake.get(id_override) { *total_stake -= previous_stake; }
\* *total_stake += stake_override;
OverrideTotal(total, id_to_stake, id_override, stake_override) ==
    WrappingAdd(IF id_override \in DOMAIN id_to_stake
                THEN WrappingSub(total, id_to_stake[id_override])
                ELSE total,
                stake_override)

\* the -= or the += of OverrideTotal leaves the range of u64
OverrideOverflows(total, id_to_stake, id_override, stake_override) ==
    LET previous_stake == IF id_override \in DOMAIN id_to_stake
                          THEN id_to_stake[id_override] ELSE 0
    IN \/ total < previous_stake
       \/ (total - previous_stake) + stake_override > U64_MAX

\* the error! record of a skipped override
Warning(id_override, stake_override) ==
    SetToBag({[id |-> id_override, stake |-> stake_override]})

\* OverrideEntry with the insert into id_to_stake done before the previous
\* stake is looked up, so that the override itself is what is subtracted
OverrideEntryInsertFirst(acc, nodes, id_override, stake_override) ==
    LET ip_override == FindIp(nodes, id_override)
    IN IF ip_override # None
       THEN [total_stake |-> OverrideTotal(acc.total_stake,
                                 Insert(acc.id_to_stake, id_override, stake_override),
                                 id_override, stake_override),
             id_to_stake |-> Insert(acc.id_to_stake, id_override, stake_override),
             ip_to_stake |-> Insert(acc.ip_to_stake, ip_override, stake_override),
             warnings |-> acc.warnings]
       ELSE [acc EXCEPT !.warnings = @ (+) Warning(id_override, stake_override)]

\* OverrideEntry that also inserts the override of a peer it could not resolve
\* into id_to_stake and the total (only the address is missing)
OverrideEntryCountsUnresolved(acc, nodes, id_override, stake_override) ==
    LET ip_override == FindIp(nodes, id_override)
    IN IF ip_override # None
       THEN [total_stake |-> OverrideTotal(acc.total_stake, acc.id_to_stake,
                                           id_override, stake_override),
             id_to_stake |-> Insert(acc.id_to_stake, id_override, stake_override),
             ip_to_stake |-> Insert(acc.ip_to_stake, ip_override, stake_override),
             warnings |-> acc.warnings]
       ELSE [total_stake |-> OverrideTotal(acc.total_stake, acc.id_to_stake,
                                           id_override, stake_override),
             id_to_stake |-> Insert(acc.id_to_stake, id_override, stake_override),
             ip_to_stake |-> acc.ip_to_stake,
             warnings |-> acc.warnings (+) Warning(id_override, stake_override)]

\* OverrideEntry that looks the previous stake up by address in ip_to_stake
\* instead of by identity in id_to_stake
OverrideEntryPreviousByIp(acc, nodes, id_override, stake_override) ==
    LET ip_override == FindIp(nodes, id_override)
    IN IF ip_override # None
       THEN [total_stake |-> OverrideTotal(acc.total_stake, acc.ip_to_stake,
                                           ip_override, stake_override),
             id_to_stake |-> Insert(acc.id_to_stake, id_override, stake_override),
             ip_to_stake |-> Insert(acc.ip_to_stake, ip_override, stake_override),
             warnings |-> acc.warnings]
       ELSE [acc EXCEPT !.warnings = @ (+) Warning(id_override, stake_override)]

\* the body of the for loop for one entry of overrides.staked_map_id, on the
\* maps, the total and the log so far; nodes is what tvu_peers() returns
OverrideEntry(acc, nodes, id_override, stake_override) ==
    LET ip_override == FindIp(nodes, id_override)
    IN IF ip_override # None
       THEN [total_stake |-> OverrideTotal(acc.total_stake, acc.id_to_stake,
                                           id_override, stake_override),
             id_to_stake |-> Insert(acc.id_to_stake, id_override, stake_override),
             ip_to_stake |-> Insert(acc.ip_to_stake, ip_override, stake_override),
             warnings |-> acc.warnings]
       ELSE [acc EXCEPT !.warnings = @ (+) Warning(id_override, stake_override)]

\* the whole for loop, visiting the entries in the given order
RECURSIVE ApplyOverrides(_, _, _, _)
ApplyOverrides(acc, nodes, overrides, order) ==
    IF order = <<>> THEN acc
    ELSE ApplyOverrides(OverrideEntry(acc, nodes, Head(order), overrides[Head(order)]),
                        nodes, overrides, Tail(order))

\* the orders in which a HashMap with key set S may iterate
Orders(S) ==
    {o \in [1..Cardinality(S) -> S] : \A i, j \in 1..Cardinality(S) : i # j => o[i] # o[j]}

(***************************************************************************)
(* Input domains.                                                          *)
(***************************************************************************)
StakeMaps(n) ==
    UNION {[D -> Stakes] : D \in {d \in SUBSET Ids : Cardinality(d) <= n}}

WideStakeMaps(n) ==
    UNION {[D -> WideStakes] : D \in {d \in SUBSET Ids : Cardinality(d) <= n}}

Nodes == [id : Ids, tvu_ip : Addrs]

\* gossip holds one contact info per identity
PeerLists(n) ==
    UNION {{s \in [1..k -> Nodes] : \A i, j \in 1..k : i # j => s[i].id # s[j].id}
           : k \in 0..n}

NodeIds(nodes) == {nodes[i].id : i \in 1..Len(nodes)}

EmptyView == [total_stake |-> 0, ip_stake_map |-> EmptyMap, pubkey_stake_map |-> EmptyMap]


(***************************************************************************)
(* State.                                                                  *)
(***************************************************************************)
VARIABLES
    exit,               \* exit: Arc<AtomicBool>
    root_staked_nodes,  \* bank_forks: root_bank().staked_nodes()
    peers,              \* cluster_info: what tvu_peers() returns now
    staked_map_id,      \* shared_staked_nodes_overrides: StakedNodesOverrides.staked_map_id
    shared,             \* shared_staked_nodes: the StakedNodes behind the RwLock
    view_readers,       \* number of read guards other threads hold on shared_staked_nodes
    pc,                 \* position of the sol-sn-updater thread
    last_stakes_elapsed, \* last_stakes.elapsed() of let mut last_stakes, in seconds
    overrides_held,     \* the thread holds the read guard `overrides`
    bank_forks_held,    \* the thread holds the temporary read guard of bank_forks
    shared_held,        \* the thread holds the write guard `shared`
    new_ip_to_stake,    \* let mut new_ip_to_stake
    new_id_to_stake,    \* let mut new_id_to_stake
    total_stake,        \* let mut total_stake
    staked_nodes,       \* let staked_nodes (try_refresh_stake_maps)
    peers_id,           \* the tvu_peers() result the id map was collected from
    peers_ip,           \* the tvu_peers() result the ip map was collected from
    ov_todo,            \* override entries the for loop has not visited yet
    warnings,           \* error! records of the current iteration, a bag of [id, stake]
    pub,                \* history: the last completed publish, its age, and
                        \* the identities its cycle skipped
    poisoned,           \* the RwLocks a writer panicked on while holding them
    overflow_checks     \* the build: arithmetic overflow panics (TRUE) or wraps

vars == <<exit, root_staked_nodes, peers, staked_map_id, shared, view_readers,
          pc, last_stakes_elapsed, overrides_held, bank_forks_held, shared_held,
          new_ip_to_stake, new_id_to_stake, total_stake, staked_nodes,
          peers_id, peers_ip, ov_todo, warnings, pub, poisoned, overflow_checks>>

envVars == <<exit, root_staked_nodes, peers, staked_map_id, view_readers,
             poisoned, overflow_checks>>
lockVars == <<overrides_held, bank_forks_held, shared_held>>
mapVars == <<new_ip_to_stake, new_id_to_stake, total_stake>>
scratchVars == <<staked_nodes, peers_id, peers_ip, ov_todo, warnings>>

NoPublish ==
    [view |-> EmptyView, age |-> -1, skipped |-> {}]

\* the maps, the total and the log the thread is working on
Locals ==
    [total_stake |-> total_stake, id_to_stake |-> new_id_to_stake,
     ip_to_stake |-> new_ip_to_stake, warnings |-> warnings]

\* the state right after StakedNodesUpdaterService::new spawned the thread
ServiceInit ==
    /\ exit = FALSE
    /\ shared = EmptyView
    /\ view_readers = 0
    /\ overrides_held = FALSE
    /\ bank_forks_held = FALSE
    /\ shared_held = FALSE
    /\ new_ip_to_stake = EmptyMap
    /\ new_id_to_stake = EmptyMap
    /\ total_stake = 0
    /\ staked_nodes = EmptyMap
    /\ peers_id = <<>>
    /\ peers_ip = <<>>
    /\ ov_todo = {}
    /\ warnings = EmptyBag
    /\ pub = NoPublish
    /\ poisoned = {}

(***************************************************************************)
(* The sol-sn-updater thread.                                              *)
(***************************************************************************)
\* let mut last_stakes = Instant::now();
ThreadStart ==
    /\ pc = "start"
    /\ last_stakes_elapsed' = 0
    /\ pc' = "loop"
    /\ UNCHANGED <<envVars, lockVars, mapVars, scratchVars, shared, pub>>

\* while !exit.load(Ordering::Relaxed): the flag is set, the closure returns
LoopExit ==
    /\ pc = "loop"
    /\ exit
    /\ pc' = "stopped"
    /\ UNCHANGED <<envVars, lockVars, mapVars, scratchVars, shared, pub, last_stakes_elapsed>>

\* ReadOverrides with the loop condition dropped (loop { ... })
ReadOverridesIgnoringExit ==
    /\ pc = "loop"
    /\ "overrides" \notin poisoned
    /\ overrides_held' = TRUE
    /\ new_ip_to_stake' = EmptyMap
    /\ new_id_to_stake' = EmptyMap
    /\ total_stake' = 0
    /\ staked_nodes' = EmptyMap
    /\ peers_id' = <<>>
    /\ peers_ip' = <<>>
    /\ ov_todo' = {}
    /\ warnings' = EmptyBag
    /\ pc' = "try_refresh"
    /\ UNCHANGED <<envVars, bank_forks_held, shared_held, shared, pub, last_stakes_elapsed>>

\* the loop body starts: overrides read guard, fresh maps, total 0
ReadOverrides ==
    /\ pc = "loop"
    /\ ~exit
    /\ "overrides" \notin poisoned
    /\ overrides_held' = TRUE
    /\ new_ip_to_stake' = EmptyMap
    /\ new_id_to_stake' = EmptyMap
    /\ total_stake' = 0
    /\ staked_nodes' = EmptyMap
    /\ peers_id' = <<>>
    /\ peers_ip' = <<>>
    /\ ov_todo' = {}
    /\ warnings' = EmptyBag
    /\ pc' = "try_refresh"
    /\ UNCHANGED <<envVars, bank_forks_held, shared_held, shared, pub, last_stakes_elapsed>>

\* last_stakes.elapsed() > IP_TO_STAKE_REFRESH_DURATION
RefreshDue == last_stakes_elapsed > IP_TO_STAKE_REFRESH_DURATION

\* NotDue returning true after its sleep, so that the caller publishes the
\* empty maps
NotDueReturnsTrue ==
    /\ pc = "try_refresh"
    /\ ~RefreshDue
    /\ pc' = "write_lock"
    /\ UNCHANGED <<envVars, lockVars, mapVars, scratchVars, shared, pub, last_stakes_elapsed>>

\* else branch: sleep(Duration::from_millis(1))
NotDue ==
    /\ pc = "try_refresh"
    /\ ~RefreshDue
    /\ pc' = "sleep"
    /\ UNCHANGED <<envVars, lockVars, mapVars, scratchVars, shared, pub, last_stakes_elapsed>>

\* SleepDone with the reset of last_stakes moved out of the if, so that the
\* not-due branch resets it too
SleepDoneResetsLastStakes ==
    /\ pc = "sleep"
    /\ overrides_held' = FALSE
    /\ last_stakes_elapsed' = 0
    /\ pc' = "loop"
    /\ UNCHANGED <<envVars, bank_forks_held, shared_held, mapVars, scratchVars,
                   shared, pub>>

\* the sleep is over, try_refresh_stake_maps returns false, the body ends
\* and drops the overrides guard
SleepDone ==
    /\ pc = "sleep"
    /\ overrides_held' = FALSE
    /\ pc' = "loop"
    /\ UNCHANGED <<envVars, bank_forks_held, shared_held, mapVars, scratchVars,
                   shared, pub, last_stakes_elapsed>>

\* LockBankForks with the write guard of the view taken before the
\* computation instead of after it
LockBankForksHoldingShared ==
    /\ pc = "try_refresh"
    /\ RefreshDue
    /\ "bank_forks" \notin poisoned
    /\ view_readers = 0
    /\ bank_forks_held' = TRUE
    /\ shared_held' = TRUE
    /\ pc' = "root_bank"
    /\ UNCHANGED <<envVars, overrides_held, mapVars, scratchVars,
                   shared, pub, last_stakes_elapsed>>

\* bank_forks.read().unwrap()
LockBankForks ==
    /\ pc = "try_refresh"
    /\ RefreshDue
    /\ "bank_forks" \notin poisoned
    /\ bank_forks_held' = TRUE
    /\ pc' = "root_bank"
    /\ UNCHANGED <<envVars, overrides_held, shared_held, mapVars, scratchVars,
                   shared, pub, last_stakes_elapsed>>

\* .root_bank(); the guard is a temporary of the statement; staked_nodes and
\* the total come from the bank that was read
RootBank ==
    /\ pc = "root_bank"
    /\ bank_forks_held' = FALSE
    /\ staked_nodes' = root_staked_nodes
    /\ total_stake' = SnapshotTotal(root_staked_nodes)
    /\ pc' = "id_to_stake"
    /\ UNCHANGED <<envVars, overrides_held, shared_held, new_ip_to_stake,
                   new_id_to_stake, peers_id, peers_ip, ov_todo, warnings,
                   shared, pub, last_stakes_elapsed>>

\* BuildIdToStake with the total restricted to the connected peers
BuildIdToStakeRestrictTotal ==
    /\ pc = "id_to_stake"
    /\ peers_id' = peers
    /\ new_id_to_stake' = CollectIdToStake(peers, staked_nodes, EmptyMap)
    /\ total_stake' = SumValues(CollectIdToStake(peers, staked_nodes, EmptyMap))
    /\ pc' = "ip_to_stake"
    /\ UNCHANGED <<envVars, lockVars, new_ip_to_stake, staked_nodes,
                   peers_ip, ov_todo, warnings, shared, pub, last_stakes_elapsed>>

\* BuildIdToStake collecting into the map of the published view instead of
\* a fresh one (shared.pubkey_stake_map.extend(...))
BuildIdToStakeExtendsPublished ==
    /\ pc = "id_to_stake"
    /\ peers_id' = peers
    /\ new_id_to_stake' = CollectIdToStake(peers, staked_nodes, shared.pubkey_stake_map)
    /\ pc' = "ip_to_stake"
    /\ UNCHANGED <<envVars, lockVars, new_ip_to_stake, total_stake, staked_nodes,
                   peers_ip, ov_todo, warnings, shared, pub, last_stakes_elapsed>>

\* *id_to_stake = cluster_info.tvu_peers()...collect()
BuildIdToStake ==
    /\ pc = "id_to_stake"
    /\ peers_id' = peers
    /\ new_id_to_stake' = CollectIdToStake(peers, staked_nodes, EmptyMap)
    /\ pc' = "ip_to_stake"
    /\ UNCHANGED <<envVars, lockVars, new_ip_to_stake, total_stake, staked_nodes,
                   peers_ip, ov_todo, warnings, shared, pub, last_stakes_elapsed>>

\* *ip_to_stake = cluster_info.tvu_peers()...collect(); then the for loop
\* over overrides.staked_map_id starts
BuildIpToStake ==
    /\ pc = "ip_to_stake"
    /\ peers_ip' = peers
    /\ new_ip_to_stake' = CollectIpToStake(peers, staked_nodes, EmptyMap)
    /\ ov_todo' = DOMAIN staked_map_id
    /\ pc' = "overrides"
    /\ UNCHANGED <<envVars, lockVars, new_id_to_stake, total_stake, staked_nodes,
                   peers_id, warnings, shared, pub, last_stakes_elapsed>>

\* ApplyOverride with the skip decisions of the previous cycle cached: an
\* identity that was skipped then is skipped again without a lookup
ApplyOverrideUnlessSkippedBefore(id_override) ==
    /\ pc = "overrides"
    /\ id_override \in ov_todo
    /\ FindIp(peers, id_override) # None
    /\ LET r == IF id_override \in pub.skipped
                THEN Locals
                ELSE OverrideEntry(Locals, peers, id_override, staked_map_id[id_override])
       IN /\ total_stake' = r.total_stake
          /\ new_id_to_stake' = r.id_to_stake
          /\ new_ip_to_stake' = r.ip_to_stake
          /\ warnings' = r.warnings
    /\ ov_todo' = ov_todo \ {id_override}
    /\ UNCHANGED <<envVars, lockVars, staked_nodes, peers_id, peers_ip,
                   shared, pub, last_stakes_elapsed, pc>>

\* one pass of the for loop whose find_map is Some(ip_override); a HashMap
\* iterates in an arbitrary order, so any entry not yet visited may be next
ApplyOverride(id_override) ==
    /\ pc = "overrides"
    /\ id_override \in ov_todo
    /\ FindIp(peers, id_override) # None
    /\ ~(overflow_checks /\ OverrideOverflows(total_stake, new_id_to_stake,
                                              id_override, staked_map_id[id_override]))
    /\ LET r == OverrideEntry(Locals, peers, id_override, staked_map_id[id_override])
       IN /\ total_stake' = r.total_stake
          /\ new_id_to_stake' = r.id_to_stake
          /\ new_ip_to_stake' = r.ip_to_stake
          /\ warnings' = r.warnings
    /\ ov_todo' = ov_todo \ {id_override}
    /\ UNCHANGED <<envVars, lockVars, staked_nodes, peers_id, peers_ip,
                   shared, pub, last_stakes_elapsed, pc>>

\* the pass of ApplyOverride in a build with overflow checks when line 123 or
\* line 125 overflows: the thread panics, the unwinding drops the overrides
\* read guard
OverridePanics(id_override) ==
    /\ pc = "overrides"
    /\ id_override \in ov_todo
    /\ FindIp(peers, id_override) # None
    /\ overflow_checks
    /\ OverrideOverflows(total_stake, new_id_to_stake,
                         id_override, staked_map_id[id_override])
    /\ overrides_held' = FALSE
    /\ pc' = "panicked"
    /\ UNCHANGED <<envVars, bank_forks_held, shared_held, mapVars, scratchVars,
                   shared, pub, last_stakes_elapsed>>

\* one pass of the for loop whose find_map is None: error!(... Skipping)
SkipOverride(id_override) ==
    /\ pc = "overrides"
    /\ id_override \in ov_todo
    /\ FindIp(peers, id_override) = None
    /\ LET r == OverrideEntry(Locals, peers, id_override, staked_map_id[id_override])
       IN /\ total_stake' = r.total_stake
          /\ new_id_to_stake' = r.id_to_stake
          /\ new_ip_to_stake' = r.ip_to_stake
          /\ warnings' = r.warnings
    /\ ov_todo' = ov_todo \ {id_override}
    /\ UNCHANGED <<envVars, lockVars, staked_nodes, peers_id, peers_ip,
                   shared, pub, last_stakes_elapsed, pc>>

\* *last_stakes = Instant::now(); true
RefreshDone ==
    /\ pc = "overrides"
    /\ ov_todo = {}
    /\ last_stakes_elapsed' = 0
    /\ pc' = "write_lock"
    /\ UNCHANGED <<envVars, lockVars, mapVars, scratchVars, shared, pub>>

\* let mut shared = shared_staked_nodes.write().unwrap();
LockShared ==
    /\ pc = "write_lock"
    /\ view_readers = 0
    /\ "shared" \notin poisoned
    /\ shared_held' = TRUE
    /\ pc' = "set_total"
    /\ UNCHANGED <<envVars, overrides_held, bank_forks_held, mapVars, scratchVars,
                   shared, pub, last_stakes_elapsed>>

\* SetTotalStake with the write guard as a temporary of the statement:
\* shared_staked_nodes.write().unwrap().total_stake = total_stake;
SetTotalStakeTemporaryGuard ==
    /\ pc = "set_total"
    /\ shared' = [shared EXCEPT !.total_stake = total_stake]
    /\ shared_held' = FALSE
    /\ pc' = "set_ip"
    /\ UNCHANGED <<envVars, overrides_held, bank_forks_held, mapVars, scratchVars,
                   pub, last_stakes_elapsed>>

\* shared.total_stake = total_stake;
SetTotalStake ==
    /\ pc = "set_total"
    /\ shared' = [shared EXCEPT !.total_stake = total_stake]
    /\ pc' = "set_ip"
    /\ UNCHANGED <<envVars, lockVars, mapVars, scratchVars, pub, last_stakes_elapsed>>

\* shared.ip_stake_map = new_ip_to_stake;
SetIpStakeMap ==
    /\ pc = "set_ip"
    /\ shared' = [shared EXCEPT !.ip_stake_map = new_ip_to_stake]
    /\ pc' = "set_id"
    /\ UNCHANGED <<envVars, lockVars, mapVars, scratchVars, pub, last_stakes_elapsed>>

\* shared.pubkey_stake_map = new_id_to_stake;
SetPubkeyStakeMap ==
    /\ pc = "set_id"
    /\ shared' = [shared EXCEPT !.pubkey_stake_map = new_id_to_stake]
    /\ pc' = "unlock_shared"
    /\ UNCHANGED <<envVars, lockVars, mapVars, scratchVars, pub, last_stakes_elapsed>>

\* the if block ends: the write guard `shared` is dropped, the publish is complete
UnlockShared ==
    /\ pc = "unlock_shared"
    /\ shared_held' = FALSE
    /\ pub' = [view |-> [total_stake |-> total_stake,
                         ip_stake_map |-> new_ip_to_stake,
                         pubkey_stake_map |-> new_id_to_stake],
               age |-> 0,
               skipped |-> {w.id : w \in BagToSet(warnings)}]
    /\ pc' = "end_body"
    /\ UNCHANGED <<envVars, overrides_held, bank_forks_held, mapVars, scratchVars,
                   shared, last_stakes_elapsed>>

\* the loop body ends: the overrides read guard is dropped
EndBody ==
    /\ pc = "end_body"
    /\ overrides_held' = FALSE
    /\ pc' = "loop"
    /\ UNCHANGED <<envVars, bank_forks_held, shared_held, mapVars, scratchVars,
                   shared, pub, last_stakes_elapsed>>

\* ReadOverridesPoisoned recovering the guard from the PoisonError
\* (read().unwrap_or_else(|e| e.into_inner()))
ReadOverridesRecovers ==
    /\ pc = "loop"
    /\ ~exit
    /\ "overrides" \in poisoned
    /\ overrides_held' = TRUE
    /\ pc' = "try_refresh"
    /\ UNCHANGED <<envVars, bank_forks_held, shared_held, mapVars, scratchVars,
                   shared, pub, last_stakes_elapsed>>

\* shared_staked_nodes_overrides.read() returns a PoisonError: unwrap() panics
ReadOverridesPoisoned ==
    /\ pc = "loop"
    /\ ~exit
    /\ "overrides" \in poisoned
    /\ pc' = "panicked"
    /\ UNCHANGED <<envVars, lockVars, mapVars, scratchVars, shared, pub, last_stakes_elapsed>>

\* bank_forks.read() returns a PoisonError: unwrap() panics, and the unwinding
\* drops the overrides read guard
LockBankForksPoisoned ==
    /\ pc = "try_refresh"
    /\ RefreshDue
    /\ "bank_forks" \in poisoned
    /\ overrides_held' = FALSE
    /\ pc' = "panicked"
    /\ UNCHANGED <<envVars, bank_forks_held, shared_held, mapVars, scratchVars,
                   shared, pub, last_stakes_elapsed>>

\* shared_staked_nodes.write() returns a PoisonError once the lock is free:
\* unwrap() panics, and the unwinding drops the overrides read guard
LockSharedPoisoned ==
    /\ pc = "write_lock"
    /\ view_readers = 0
    /\ "shared" \in poisoned
    /\ overrides_held' = FALSE
    /\ pc' = "panicked"
    /\ UNCHANGED <<envVars, bank_forks_held, shared_held, mapVars, scratchVars,
                   shared, pub, last_stakes_elapsed>>

\* the unwrap() of a lock result panics
PoisonPanic ==
    \/ ReadOverridesPoisoned
    \/ LockBankForksPoisoned
    \/ LockSharedPoisoned

\* thread_hdl.join(): Err for a thread that panicked, Ok for one that returned
Join ==
    IF pc = "panicked" THEN "Err"
    ELSE IF pc = "stopped" THEN "Ok"
    ELSE "blocked"

\* one pass of the loop body
Body ==
    \/ ReadOverrides
    \/ NotDue
    \/ SleepDone
    \/ LockBankForks
    \/ RootBank
    \/ BuildIdToStake
    \/ BuildIpToStake
    \/ \E id_override \in Ids : ApplyOverride(id_override)
    \/ \E id_override \in Ids : SkipOverride(id_override)
    \/ RefreshDone
    \/ LockShared
    \/ SetTotalStake
    \/ SetIpStakeMap
    \/ SetPubkeyStakeMap
    \/ UnlockShared
    \/ EndBody

Service ==
    \/ LoopExit
    \/ Body

(***************************************************************************)
(* The other threads of the validator.                                     *)
(***************************************************************************)
svcVars == <<pc, last_stakes_elapsed, lockVars, mapVars, scratchVars, shared, pub>>

Min(a, b) == IF a < b THEN a ELSE b

\* a second passes. Instants are used only through elapsed() and through the
\* distance of two publishes, each compared with the refresh duration, so
\* each age stops counting once it is past that comparison.
Tick ==
    /\ last_stakes_elapsed' = Min(last_stakes_elapsed + 1, IP_TO_STAKE_REFRESH_DURATION + 1)
    /\ pub' = IF pub.age < 0 THEN pub
              ELSE [pub EXCEPT !.age = Min(pub.age + 1, IP_TO_STAKE_REFRESH_DURATION)]
    /\ UNCHANGED <<envVars, pc, lockVars, mapVars, scratchVars, shared>>

\* exit.store(true)
Cancel ==
    /\ ~exit
    /\ exit' = TRUE
    /\ UNCHANGED <<root_staked_nodes, peers, staked_map_id, view_readers, svcVars,
                   poisoned, overflow_checks>>

\* a consumer takes shared_staked_nodes.read(); the RwLock does not admit a
\* new reader while the write guard is held or the thread waits for it
ReaderAcquire ==
    /\ ~shared_held
    /\ pc # "write_lock"
    /\ view_readers < MaxReaders
    /\ view_readers' = view_readers + 1
    /\ UNCHANGED <<exit, root_staked_nodes, peers, staked_map_id, svcVars,
                   poisoned, overflow_checks>>

\* a consumer drops its read guard
ReaderRelease ==
    /\ view_readers > 0
    /\ view_readers' = view_readers - 1
    /\ UNCHANGED <<exit, root_staked_nodes, peers, staked_map_id, svcVars,
                   poisoned, overflow_checks>>

Locks == {"overrides", "bank_forks", "shared"}

\* a thread that holds the write guard of a lock panics: the lock is poisoned.
\* A write guard excludes every other guard of the lock.
PoisonLock(lock) ==
    /\ lock \in Locks \ poisoned
    /\ lock = "overrides" => ~overrides_held
    /\ lock = "bank_forks" => ~bank_forks_held
    /\ lock = "shared" => (~shared_held /\ view_readers = 0)
    /\ poisoned' = poisoned \cup {lock}
    /\ UNCHANGED <<exit, root_staked_nodes, peers, staked_map_id, view_readers,
                   svcVars, overflow_checks>>

\* the staked nodes of the root bank while the service runs
RootSnapshot == ("A" :> 2) @@ ("B" :> 1)

GossipStates ==
    {<<[id |-> "A", tvu_ip |-> "ip1"], [id |-> "B", tvu_ip |-> "ip2"]>>,
     <<[id |-> "B", tvu_ip |-> "ip1"]>>}

OverrideConfigs ==
    {EmptyMap, ("A" :> 3) @@ ("C" :> 1)}

\* gossip learns or drops contact infos
GossipUpdate ==
    /\ peers' \in GossipStates \ {peers}
    /\ UNCHANGED <<exit, root_staked_nodes, staked_map_id, view_readers, svcVars,
                   poisoned, overflow_checks>>

\* shared_staked_nodes_overrides.write(): the overrides file is reloaded
\* (excluded while the thread holds its read guard)
ReloadOverrides ==
    /\ ~overrides_held
    /\ staked_map_id' \in OverrideConfigs \ {staked_map_id}
    /\ UNCHANGED <<exit, root_staked_nodes, peers, view_readers, svcVars,
                   poisoned, overflow_checks>>

(***************************************************************************)
(* Specifications.                                                         *)
(***************************************************************************)
Init ==
    /\ ServiceInit
    /\ pc = "start"
    /\ last_stakes_elapsed = 0
    /\ overflow_checks = FALSE
    /\ root_staked_nodes = RootSnapshot
    /\ peers \in GossipStates
    /\ staked_map_id \in OverrideConfigs

Next ==
    \/ ThreadStart
    \/ Service
    \/ Tick
    \/ Cancel
    \/ ReaderAcquire
    \/ ReaderRelease
    \/ GossipUpdate
    \/ ReloadOverrides

Spec == Init /\ [][Next]_vars

\* one refresh on inputs drawn from the whole bounded domain: the thread
\* is at the top of its loop and the interval has just elapsed
InitCycle ==
    /\ ServiceInit
    /\ pc = "loop"
    /\ last_stakes_elapsed = IP_TO_STAKE_REFRESH_DURATION + 1
    /\ overflow_checks = FALSE
    /\ root_staked_nodes \in StakeMaps(MaxEntries)
    /\ peers \in PeerLists(MaxPeers)
    /\ staked_map_id \in StakeMaps(MaxEntries)

NextCycle == Body

SpecCycle == InitCycle /\ [][NextCycle]_vars

\* the service among threads that may panic while they hold a write guard
NextPoison ==
    \/ Next
    \/ \E lock \in Locks : PoisonLock(lock)
    \/ PoisonPanic

SpecPoison == Init /\ [][NextPoison]_vars

\* one refresh with override stakes from the whole range of u64, in either
\* build; the stakes of a bank are bounded by the supply and their sum fits
InitOverflow ==
    /\ ServiceInit
    /\ pc = "loop"
    /\ last_stakes_elapsed = IP_TO_STAKE_REFRESH_DURATION + 1
    /\ overflow_checks \in BOOLEAN
    /\ root_staked_nodes \in StakeMaps(MaxEntries)
    /\ peers \in PeerLists(1) \cup {<<[id |-> "A", tvu_ip |-> "ip1"], [id |-> "B", tvu_ip |-> "ip2"]>>}
    /\ staked_map_id \in WideStakeMaps(MaxEntries)

NextOverflow ==
    \/ Body
    \/ \E id_override \in Ids : OverridePanics(id_override)

SpecOverflow == InitOverflow /\ [][NextOverflow]_vars

\* the scheduler runs the thread, and readers release their guards (so the
\* waiting writer gets the lock once the last reader has released)
Fairness ==
    /\ WF_vars(ThreadStart \/ Service)
    /\ WF_vars(ReaderRelease)

FairSpec == Spec /\ Fairness

\* time advances as well
FairTimeSpec == FairSpec /\ WF_vars(Tick)

(***************************************************************************)
(* Properties.                                                             *)
(***************************************************************************)
Published == pub.age >= 0

\* C1: whenever a reader holds shared-read access (also after cancellation
\* and after the thread has stopped), the three fields of the view are
\* together the initial empty values or together the result of one refresh
\* cycle: the triple of the last completed publish.
C1_ReaderSeesOnePublish ==
    view_readers > 0 => shared = pub.view

C1_Witness ==
    /\ view_readers > 0
    /\ Published
    /\ pc = "stopped"
    /\ shared.total_stake > 0
    /\ shared.ip_stake_map # EmptyMap
    /\ shared.pubkey_stake_map # EmptyMap

\* C7: no refresh cycle starts before the interval has elapsed since
\* last_stakes, and any two consecutive publishes are separated by at least
\* the refresh interval.
C7_PublishesAnIntervalApart ==
    /\ [][(pc = "try_refresh" /\ pc' = "root_bank")
            => last_stakes_elapsed > IP_TO_STAKE_REFRESH_DURATION]_vars
    /\ [][(pc = "unlock_shared" /\ pc' = "end_body" /\ Published)
            => pub.age >= IP_TO_STAKE_REFRESH_DURATION]_vars

\* C8: once exit is set, the next cancellation check ends the thread instead
\* of starting a loop body; Stopped is final; and the thread reaches Stopped.
C8_StopsAfterCancel ==
    /\ [][(exit /\ pc = "loop" /\ pc' # pc) => pc' = "stopped"]_vars
    /\ [][pc = "stopped" => pc' = "stopped"]_vars
    /\ (exit ~> (pc = "stopped"))

C8_Witness ==
    /\ exit
    /\ pc = "stopped"
    /\ Published

\* C9: the thread never holds the overrides read guard together with the
\* write guard of the view or with the read guard of bank_forks.
C9_OneLockAtATime ==
    ~(overrides_held /\ (shared_held \/ bank_forks_held))

(***************************************************************************)
(* Properties of one refresh cycle. In the state "end_body" the write      *)
(* guard has just been dropped: `shared` is the view just published and    *)
(* staked_nodes, peers_id, peers_ip and staked_map_id are what it was      *)
(* computed from.                                                          *)
(***************************************************************************)
JustPublished == pc = "end_body"

\* the snapshot stakes of the identities outside a set of identities
RECURSIVE StakeOutside(_, _)
StakeOutside(snapshot, ids) ==
    IF DOMAIN snapshot = {} THEN 0
    ELSE LET k == CHOOSE x \in DOMAIN snapshot : TRUE
         IN (IF k \in ids THEN 0 ELSE snapshot[k])
            + StakeOutside([x \in (DOMAIN snapshot) \ {k} |-> snapshot[x]], ids)

\* the records of a peer list whose identity has a snapshot entry
StakedPositions(nodes, snapshot) ==
    {i \in 1..Len(nodes) : nodes[i].id \in DOMAIN snapshot}

\* C2 as stated: after every publish, total_stake is the sum of the values of
\* the published pubkey_stake_map.
C2_TotalIsSumOfPubkeyMap ==
    JustPublished => shared.total_stake = SumValues(shared.pubkey_stake_map)

\* C2 amended: after every publish, total_stake is the sum of the values of
\* the published pubkey_stake_map plus the snapshot stakes of the identities
\* that are not in the peer list the map was built from (as a u64).
C2_TotalIsSumPlusUnconnected ==
    JustPublished =>
        shared.total_stake = (SumValues(shared.pubkey_stake_map)
                              + StakeOutside(staked_nodes, NodeIds(peers_id)))
                             % (U64_MAX + 1)

C2_Witness ==
    /\ JustPublished
    /\ DOMAIN staked_nodes \ NodeIds(peers_id) # {}
    /\ \E id \in DOMAIN staked_map_id :
          /\ id \in DOMAIN staked_nodes
          /\ id \in NodeIds(peers_id)
          /\ shared.pubkey_stake_map[id] = staked_map_id[id]
          /\ staked_map_id[id] # staked_nodes[id]
    /\ shared.total_stake > SumValues(shared.pubkey_stake_map)

\* C3: with no overrides, the published total_stake is the sum of all stakes
\* of the snapshot; an identity of the snapshot without a peer record is
\* counted in it, is no key of pubkey_stake_map, and no key of ip_stake_map
\* comes from anything but the record of a peer with a snapshot entry.
C3_TotalIsWholeSnapshot ==
    (JustPublished /\ staked_map_id = EmptyMap) =>
        /\ shared.total_stake = SumValues(staked_nodes)
        /\ \A id \in DOMAIN staked_nodes :
              id \notin NodeIds(peers_id) =>
                  /\ id \notin DOMAIN shared.pubkey_stake_map
                  /\ shared.total_stake >= staked_nodes[id]
        /\ DOMAIN shared.ip_stake_map =
              {peers_ip[i].tvu_ip : i \in StakedPositions(peers_ip, staked_nodes)}

C3_Witness ==
    /\ JustPublished
    /\ staked_map_id = EmptyMap
    /\ DOMAIN staked_nodes \ (NodeIds(peers_id) \cup NodeIds(peers_ip)) # {}
    /\ shared.pubkey_stake_map # EmptyMap
    /\ shared.total_stake > SumValues(shared.pubkey_stake_map)

\* the pubkey_stake_map part of C4: exactly the identities that are in the
\* peer list and in the snapshot, each with its snapshot stake
PubkeyMapIsIntersection ==
    /\ DOMAIN shared.pubkey_stake_map = NodeIds(peers_id) \cap DOMAIN staked_nodes
    /\ \A id \in DOMAIN shared.pubkey_stake_map :
          shared.pubkey_stake_map[id] = staked_nodes[id]

\* C4 as stated: with no overrides and an unchanged peer list, pubkey_stake_map
\* is the snapshot restricted to the peers, and ip_stake_map has the address of
\* each such peer with that peer's snapshot stake and no other key.
C4_EachPeerAddressHasItsStake ==
    (JustPublished /\ staked_map_id = EmptyMap /\ peers_id = peers_ip) =>
        /\ PubkeyMapIsIntersection
        /\ DOMAIN shared.ip_stake_map =
              {peers_ip[i].tvu_ip : i \in StakedPositions(peers_ip, staked_nodes)}
        /\ \A i \in StakedPositions(peers_ip, staked_nodes) :
              shared.ip_stake_map[peers_ip[i].tvu_ip] = staked_nodes[peers_ip[i].id]

\* C4 amended: ... and ip_stake_map has exactly the addresses of those peers,
\* each with the snapshot stake of the last such peer of the list at that
\* address (the peer's own stake when no later such peer shares its address).
C4_LastPeerOfAnAddressWins ==
    (JustPublished /\ staked_map_id = EmptyMap /\ peers_id = peers_ip) =>
        /\ PubkeyMapIsIntersection
        /\ DOMAIN shared.ip_stake_map =
              {peers_ip[i].tvu_ip : i \in StakedPositions(peers_ip, staked_nodes)}
        /\ \A i \in StakedPositions(peers_ip, staked_nodes) :
              (\A j \in StakedPositions(peers_ip, staked_nodes) :
                    peers_ip[j].tvu_ip = peers_ip[i].tvu_ip => j <= i)
              => shared.ip_stake_map[peers_ip[i].tvu_ip] = staked_nodes[peers_ip[i].id]

C4_Witness ==
    /\ JustPublished
    /\ staked_map_id = EmptyMap
    /\ peers_id = peers_ip
    /\ \E i, j \in StakedPositions(peers_ip, staked_nodes) :
          /\ i < j
          /\ peers_ip[i].tvu_ip = peers_ip[j].tvu_ip
          /\ staked_nodes[peers_ip[i].id] # staked_nodes[peers_ip[j].id]
          /\ shared.ip_stake_map[peers_ip[i].tvu_ip] = staked_nodes[peers_ip[j].id]

\* the pass of the for loop that visits id_override
Visits(id_override) ==
    /\ pc = "overrides"
    /\ id_override \in ov_todo
    /\ id_override \notin ov_todo'

\* C5: the pass for an override whose identity is in id_to_stake with stake p
\* and whose address resolves sets both map entries to the override stake,
\* moves total_stake by exactly override_stake - p, and changes no other entry.
C5_OverlappingOverrideReplacesOnce ==
    [][\A id \in Ids :
          (Visits(id) /\ id \in DOMAIN new_id_to_stake /\ FindIp(peers, id) # None) =>
              /\ new_id_to_stake'[id] = staked_map_id[id]
              /\ new_ip_to_stake'[FindIp(peers, id)] = staked_map_id[id]
              /\ total_stake' + new_id_to_stake[id] = total_stake + staked_map_id[id]
              /\ DOMAIN new_id_to_stake' = DOMAIN new_id_to_stake
              /\ \A other \in DOMAIN new_id_to_stake \ {id} :
                    new_id_to_stake'[other] = new_id_to_stake[other]
              /\ DOMAIN new_ip_to_stake' = DOMAIN new_ip_to_stake \cup {FindIp(peers, id)}
              /\ \A ip \in DOMAIN new_ip_to_stake \ {FindIp(peers, id)} :
                    new_ip_to_stake'[ip] = new_ip_to_stake[ip]]_vars

\* an overlapping override with a different stake is the only one applied so far
C5_Witness ==
    /\ pc = "overrides"
    /\ \E id \in DOMAIN staked_map_id \ ov_todo :
          /\ DOMAIN staked_map_id \ ov_todo = {id}
          /\ id \in DOMAIN staked_nodes
          /\ id \in NodeIds(peers_id)
          /\ FindIp(peers, id) # None
          /\ staked_map_id[id] # staked_nodes[id]
          /\ new_id_to_stake[id] = staked_map_id[id]
          /\ total_stake + staked_nodes[id] = SumValues(staked_nodes) + staked_map_id[id]
          /\ DOMAIN new_id_to_stake # {id}

\* C6: the pass for an override whose identity has no peer record when it is
\* looked up changes neither map nor the total, logs one record with the
\* identity and the stake, and the cycle goes on to its publish.
C6_UnknownOverrideIsSkipped ==
    /\ [][\A id \in Ids :
             (Visits(id) /\ FindIp(peers, id) = None) =>
                 /\ UNCHANGED <<new_id_to_stake, new_ip_to_stake, total_stake>>
                 /\ warnings' = warnings (+) SetToBag({[id |-> id, stake |-> staked_map_id[id]]})
                 /\ CopiesIn([id |-> id, stake |-> staked_map_id[id]], warnings') = 1
                 /\ pc' = "overrides"]_vars
    /\ ((pc = "overrides" /\ warnings # EmptyBag) ~> (JustPublished /\ warnings # EmptyBag))

C6_Witness ==
    /\ JustPublished
    /\ warnings # EmptyBag
    /\ shared.pubkey_stake_map # EmptyMap
    /\ \E w \in BagToSet(warnings) : w.id \notin DOMAIN shared.pubkey_stake_map

\* the base maps and total of the cycle, before the for loop
BaseMaps ==
    [total_stake |-> SnapshotTotal(staked_nodes),
     id_to_stake |-> CollectIdToStake(peers_id, staked_nodes, EmptyMap),
     ip_to_stake |-> CollectIpToStake(peers_ip, staked_nodes, EmptyMap),
     warnings |-> EmptyBag]

\* two overrides with different stakes resolve to the same address
OverridesShareAnAddress ==
    \E i, j \in DOMAIN staked_map_id :
        /\ FindIp(peers, i) # None
        /\ FindIp(peers, i) = FindIp(peers, j)
        /\ staked_map_id[i] # staked_map_id[j]

\* the for loop is over and the peer list did not change during the cycle
Reconciled ==
    /\ pc = "write_lock"
    /\ peers_id = peers
    /\ peers_ip = peers

\* C10 as stated: a second reconciliation of the same base maps, total and
\* overrides against the same peers gives the same total_stake,
\* pubkey_stake_map and ip_stake_map as the one the thread did, whatever the
\* order in which either iterates the overrides.
C10_ReconcileTwiceSameResult ==
    Reconciled =>
        \A order \in Orders(DOMAIN staked_map_id) :
            LET again == ApplyOverrides(BaseMaps, peers, staked_map_id, order)
            IN /\ again.total_stake = total_stake
               /\ again.id_to_stake = new_id_to_stake
               /\ again.ip_to_stake = new_ip_to_stake

\* C10 amended: ... gives the same total_stake and pubkey_stake_map whatever
\* the orders, and the same ip_stake_map unless two overrides with different
\* stakes resolve to the same address (then the one iterated last is kept).
C10_ReconcileTwiceSameUnlessSharedAddress ==
    Reconciled =>
        \A order \in Orders(DOMAIN staked_map_id) :
            LET again == ApplyOverrides(BaseMaps, peers, staked_map_id, order)
            IN /\ again.total_stake = total_stake
               /\ again.id_to_stake = new_id_to_stake
               /\ ~OverridesShareAnAddress => again.ip_to_stake = new_ip_to_stake

C10_Witness ==
    /\ Reconciled
    /\ Cardinality(DOMAIN staked_map_id) >= 2
    /\ \A id \in DOMAIN staked_map_id : FindIp(peers, id) # None
    /\ \E id \in DOMAIN staked_map_id : id \in DOMAIN staked_nodes
    /\ \E i, j \in DOMAIN staked_map_id :
          i # j /\ FindIp(peers, i) = FindIp(peers, j) /\ staked_map_id[i] = staked_map_id[j]

\* C14: the pass for an override whose identity is not in id_to_stake and
\* whose address resolves adds the override stake to total_stake, subtracts
\* nothing, inserts the identity and the address with the override stake,
\* and changes no other entry of either map.
C14_NewIdentityOverrideAddsOnly ==
    [][\A id \in Ids :
          (Visits(id) /\ id \notin DOMAIN new_id_to_stake /\ FindIp(peers, id) # None) =>
              /\ total_stake' = total_stake + staked_map_id[id]
              /\ DOMAIN new_id_to_stake' = DOMAIN new_id_to_stake \cup {id}
              /\ new_id_to_stake'[id] = staked_map_id[id]
              /\ \A other \in DOMAIN new_id_to_stake :
                    new_id_to_stake'[other] = new_id_to_stake[other]
              /\ DOMAIN new_ip_to_stake' = DOMAIN new_ip_to_stake \cup {FindIp(peers, id)}
              /\ new_ip_to_stake'[FindIp(peers, id)] = staked_map_id[id]
              /\ \A ip \in DOMAIN new_ip_to_stake \ {FindIp(peers, id)} :
                    new_ip_to_stake'[ip] = new_ip_to_stake[ip]
              /\ warnings' = warnings]_vars

\* the override of a peer without a snapshot entry is the only one applied
\* so far, next to a base entry it left alone
C14_Witness ==
    /\ pc = "overrides"
    /\ \E id \in DOMAIN staked_map_id \ ov_todo :
          /\ DOMAIN staked_map_id \ ov_todo = {id}
          /\ id \notin DOMAIN staked_nodes
          /\ id \in NodeIds(peers)
          /\ new_id_to_stake[id] = staked_map_id[id]
          /\ new_ip_to_stake[FindIp(peers, id)] = staked_map_id[id]
          /\ total_stake = SumValues(staked_nodes) + staked_map_id[id]
          /\ DOMAIN new_id_to_stake # {id}
          /\ warnings = EmptyBag

(***************************************************************************)
(* Properties of consecutive cycles.                                       *)
(***************************************************************************)
\* C11: every cycle starts with an empty log and visits every entry of the
\* overrides mapping; the pass for an identity that the previous cycle
\* skipped, and that has a peer record now, applies the override: both map
\* entries are set to the override stake and the total is moved.
C11_SkippedOverrideAppliedOnceKnown ==
    /\ [][(pc = "loop" /\ pc' = "try_refresh") => warnings' = EmptyBag]_vars
    /\ [][(pc = "ip_to_stake" /\ pc' = "overrides") => ov_todo' = DOMAIN staked_map_id]_vars
    /\ [][(pc = "overrides" /\ pc' # pc) => ov_todo = {}]_vars
    /\ [][\A id \in Ids :
             (Visits(id) /\ id \in pub.skipped /\ FindIp(peers, id) # None) =>
                 /\ id \in DOMAIN new_id_to_stake'
                 /\ new_id_to_stake'[id] = staked_map_id[id]
                 /\ new_ip_to_stake'[FindIp(peers, id)] = staked_map_id[id]
                 /\ total_stake' = OverrideTotal(total_stake, new_id_to_stake,
                                                 id, staked_map_id[id])
                 /\ warnings' = warnings]_vars

\* the override of an identity skipped in the previous cycle has been applied
C11_Witness ==
    /\ pc = "overrides"
    /\ \E id \in pub.skipped \cap DOMAIN staked_map_id :
          /\ id \notin ov_todo
          /\ id \notin DOMAIN pub.view.pubkey_stake_map
          /\ id \in DOMAIN new_id_to_stake
          /\ new_id_to_stake[id] = staked_map_id[id]
          /\ new_id_to_stake[id] # staked_nodes[id]
          /\ warnings = EmptyBag

\* the identities the for loop of the current iteration skipped
SkippedNow == {w.id : w \in BagToSet(warnings)}

\* the addresses an identity has in some state of gossip
AddrsOf(id) == {FindIp(g, id) : g \in GossipStates} \ {None}

\* the three assignments are done, or the write guard has just been dropped
Assigned == pc \in {"unlock_shared", "end_body"}

\* C12: before the first publish the view is empty; a publish leaves in
\* pubkey_stake_map exactly the identities of this cycle's base map and of
\* the overrides this cycle applied, and in ip_stake_map only addresses of
\* this cycle's staked peers and of the overrides it applied, so nothing of
\* the previous view survives unless this cycle produced it again.
C12_ViewReplacedWholesale ==
    /\ (~Published /\ ~shared_held) => shared = EmptyView
    /\ Assigned =>
          /\ DOMAIN shared.pubkey_stake_map =
                (NodeIds(peers_id) \cap DOMAIN staked_nodes)
                \cup (DOMAIN staked_map_id \ SkippedNow)
          /\ DOMAIN shared.ip_stake_map \subseteq
                {peers_ip[i].tvu_ip : i \in StakedPositions(peers_ip, staked_nodes)}
                \cup UNION {AddrsOf(id) : id \in DOMAIN staked_map_id \ SkippedNow}

\* an identity and an address of the previous view are gone from the new one
C12_Witness ==
    /\ pc = "unlock_shared"
    /\ Published
    /\ shared.pubkey_stake_map # EmptyMap
    /\ \E id \in DOMAIN pub.view.pubkey_stake_map : id \notin DOMAIN shared.pubkey_stake_map
    /\ \E ip \in DOMAIN pub.view.ip_stake_map : ip \notin DOMAIN shared.ip_stake_map

(***************************************************************************)
(* Locking discipline of the view.                                         *)
(***************************************************************************)
\* C13: the write guard of the view is held only from its acquisition to
\* the end of the three assignments: never together with the bank_forks
\* guard, never while the snapshot is read, the peers are queried, the
\* overrides are applied or the thread sleeps; and the guard is dropped by
\* the step that follows the third assignment.
C13_WriteLockOnlyForAssignments ==
    /\ shared_held => /\ pc \in {"set_total", "set_ip", "set_id", "unlock_shared"}
                      /\ ~bank_forks_held
    /\ pc \in {"try_refresh", "sleep", "root_bank", "id_to_stake", "ip_to_stake",
                "overrides", "write_lock", "end_body", "loop", "start", "stopped",
                "panicked"}
          => ~shared_held

\* a reader is kept out while the second field is being assigned
C13_Witness ==
    /\ shared_held
    /\ pc = "set_ip"
    /\ view_readers = 0
    /\ Published
    /\ shared.total_stake = total_stake
    /\ shared.ip_stake_map # new_ip_to_stake

(***************************************************************************)
(* The peer lists of one cycle.                                            *)
(***************************************************************************)
\* every peer record a tvu_peers() call of the cycle may have returned
PeerRecords ==
    UNION {{g[i] : i \in 1..Len(g)} : g \in GossipStates \cup {peers, peers_id, peers_ip}}

\* C15: in every published view, also when gossip changed during the cycle,
\* each key of ip_stake_map is the address of a peer record whose identity
\* is a key of pubkey_stake_map with the same stake.
C15_MapsFromSamePeerRecords ==
    JustPublished =>
        \A ip \in DOMAIN shared.ip_stake_map :
            \E node \in PeerRecords :
                /\ node.tvu_ip = ip
                /\ node.id \in DOMAIN shared.pubkey_stake_map
                /\ shared.pubkey_stake_map[node.id] = shared.ip_stake_map[ip]

(***************************************************************************)
(* Poisoned locks.                                                         *)
(***************************************************************************)
\* C16: an acquisition that finds its lock poisoned ends the thread by a
\* panic; a panicked thread takes no further step, holds no guard and
\* leaves the view as of the last complete publish; join reports Err.
C16_PoisonedLockIsFatal ==
    /\ [][(pc = "loop" /\ "overrides" \in poisoned /\ pc' # pc)
            => pc' \in {"panicked", "stopped"}]_vars
    /\ [][(pc = "try_refresh" /\ RefreshDue /\ "bank_forks" \in poisoned /\ pc' # pc)
            => pc' = "panicked"]_vars
    /\ [][(pc = "write_lock" /\ "shared" \in poisoned /\ pc' # pc)
            => (pc' = "panicked" /\ shared' = shared)]_vars
    /\ [][pc = "panicked"
            => (pc' = "panicked" /\ UNCHANGED <<shared, pub.view, lockVars>>)]_vars
    /\ [](pc = "panicked"
            => (shared = pub.view /\ Join = "Err"
                /\ ~overrides_held /\ ~bank_forks_held /\ ~shared_held))

\* the thread died on the poisoned lock of the view, after a publish and
\* with a computed refresh it never published
C16_Witness ==
    /\ pc = "panicked"
    /\ poisoned = {"shared"}
    /\ Published
    /\ shared # EmptyView
    /\ new_id_to_stake # shared.pubkey_stake_map
    /\ Join = "Err"

(***************************************************************************)
(* Progress.                                                               *)
(***************************************************************************)
\* C17: with fair scheduling, readers that release and time that advances:
\* once the refresh interval has elapsed, a cycle is performed and published
\* unless exit is set; the end of the computation resets last_stakes; and
\* unless exit is set at some time, publishes occur infinitely often.
C17_KeepsPublishing ==
    /\ [][(pc = "overrides" /\ pc' = "write_lock") => last_stakes_elapsed' = 0]_vars
    /\ (RefreshDue ~> (exit \/ JustPublished))
    /\ (<>exit \/ []<>JustPublished)

\* a later publish is about to complete while the service runs on
C17_Witness ==
    /\ pc = "unlock_shared"
    /\ ~exit
    /\ Published
    /\ pub.age >= 1
    /\ last_stakes_elapsed <= IP_TO_STAKE_REFRESH_DURATION

(***************************************************************************)
(* Arithmetic.                                                             *)
(***************************************************************************)
\* C18: whenever the for loop subtracts the previous stake of an identity
\* from total_stake, total_stake is at least that stake.
C18_SubtractionNeverUnderflows ==
    [][\A id \in Ids :
          (Visits(id) /\ FindIp(peers, id) # None /\ id \in DOMAIN new_id_to_stake)
              => total_stake >= new_id_to_stake[id]]_vars

\* C19: the total_stake and the pubkey_stake_map a cycle is about to
\* publish are those of every other order of iterating the same overrides
\* mapping over the same snapshot and peers, also when the total wrapped.
C19_TotalAndPubkeyMapOrderIndependent ==
    Reconciled =>
        \A order \in Orders(DOMAIN staked_map_id) :
            LET again == ApplyOverrides(BaseMaps, peers, staked_map_id, order)
            IN /\ again.total_stake = total_stake
               /\ again.id_to_stake = new_id_to_stake

\* two applied overrides, one replacing a snapshot stake by a different one
\* and one so large that the total wrapped
C19_Witness ==
    /\ Reconciled
    /\ warnings = EmptyBag
    /\ Cardinality(DOMAIN staked_map_id) >= 2
    /\ \E id \in DOMAIN staked_map_id :
          id \in DOMAIN staked_nodes /\ staked_map_id[id] # staked_nodes[id]
    /\ \E id \in DOMAIN staked_map_id :
          staked_map_id[id] = U64_MAX /\ total_stake < U64_MAX

(***************************************************************************)
(* The iteration that finds the refresh not due.                           *)
(***************************************************************************)
\* a step of the thread inside an iteration that found the refresh not due
NotDueStep == (pc = "try_refresh" /\ ~RefreshDue /\ pc' # pc) \/ (pc = "sleep" /\ pc' # pc)

\* C20: an iteration that finds the refresh not due goes to its sleep and
\* from there back to the loop condition; its steps change neither the view
\* nor last_stakes, the write guard of the view is never held in it, and
\* the maps and the total it prepared are still empty when it ends.
C20_NotDueIterationChangesNothing ==
    /\ [][(pc = "try_refresh" /\ ~RefreshDue /\ pc' # pc) => pc' = "sleep"]_vars
    /\ [][(pc = "sleep" /\ pc' # pc) => pc' = "loop"]_vars
    /\ [][NotDueStep =>
             /\ UNCHANGED <<shared, pub, last_stakes_elapsed, shared_held, bank_forks_held>>
             /\ ~shared_held
             /\ new_ip_to_stake' = EmptyMap
             /\ new_id_to_stake' = EmptyMap
             /\ total_stake' = 0]_vars
    /\ [](pc = "sleep" => ~shared_held)

\* the thread sleeps between two refreshes, the view holding the last publish
C20_Witness ==
    /\ pc = "sleep"
    /\ Published
    /\ shared # EmptyView
    /\ shared = pub.view
    /\ last_stakes_elapsed > 0
    /\ new_id_to_stake = EmptyMap

====
